---- MODULE Spec2Model ----
(***************************************************************************)
(* cluster_test of src/cluster_utils.py: the cluster-based permutation     *)
(* test.  The arrays are one-dimensional (NCells cells in a line), so the  *)
(* face adjacency of scipy.ndimage.label is "neighbouring index".  Data    *)
(* are integers; a quantile threshold is kept exactly, as the integer      *)
(* QDen * threshold, and a p-value is kept exactly, as the pair            *)
(* <<numerator, denominator>>.  For integer data and the levels used here  *)
(* the floating-point comparisons of the code order the same way.  NaN is  *)
(* the empty tuple <<>>, a number v is <<v>>.                              *)
(***************************************************************************)
EXTENDS Integers, Sequences, FiniteSets, TLC

\* bounds of the model
NCells == 3
MaxPerm == 6

Cells == 1..NCells
Vals == {-1, 0, 1}
NaN == <<>>

VARIABLES datobs, datrnd, tail, alpha, clusteralpha, clusterstat,
          pc, cluster_threshold_neg, cluster_threshold_pos,
          obs_pos, obs_neg, pending, null_pos, null_neg, p, h

vars == <<datobs, datrnd, tail, alpha, clusteralpha, clusterstat,
          pc, cluster_threshold_neg, cluster_threshold_pos,
          obs_pos, obs_neg, pending, null_pos, null_neg, p, h>>

inputs == <<datobs, datrnd, tail, alpha, clusteralpha, clusterstat>>

----------------------------------------------------------------------------
\* helpers on integers, sets and sequences

Abs(x) == IF x < 0 THEN -x ELSE x

MinOf(S) == CHOOSE x \in S : \A y \in S : x <= y

MaxOf(S) == CHOOSE x \in S : \A y \in S : x >= y

Range(s) == {s[i] : i \in 1..Len(s)}

RECURSIVE SumOver(_, _)
SumOver(f, S) == IF S = {} THEN 0
                 ELSE LET c == MinOf(S) IN f[c] + SumOver(f, S \ {c})

RECURSIVE Insert(_, _)
Insert(x, s) == IF s = <<>> THEN <<x>>
                ELSE IF x <= Head(s) THEN <<x>> \o s
                ELSE <<Head(s)>> \o Insert(x, Tail(s))

\* np.sort: ascending
RECURSIVE Sort(_)
Sort(s) == IF s = <<>> THEN <<>> ELSE Insert(Head(s), Sort(Tail(s)))

\* [::-1]
Reverse(s) == [i \in 1..Len(s) |-> s[Len(s) + 1 - i]]

\* Python round(numrnd / 10): round half to even
Round10(n) ==
    LET q == n \div 10
        r == n % 10
    IN  IF r < 5 THEN q
        ELSE IF r > 5 THEN q + 1
        ELSE IF q % 2 = 0 THEN q ELSE q + 1

----------------------------------------------------------------------------
\* the configuration read at the top of cluster_test

numrnd == Len(datrnd)

cluster_stat_sum == clusterstat = "sum"

cluster_stat_size == clusterstat = "size"

\* clusteralpha after "if tail == 0: clusteralpha = clusteralpha / 2", as QNum / QDen
QNum == clusteralpha[1]

QDen == IF tail = 0 THEN 2 * clusteralpha[2] ELSE clusteralpha[2]

\* np.quantile(col, qn / QDen), method "linear", times QDen; what is computed
\* from no value at all is NaN
Quantile(col, qn) ==
    IF col = <<>> THEN NaN
    ELSE LET n == Len(col)
             s == Sort(col)
             v == (n - 1) * qn
             lo == v \div QDen
             g == v % QDen
             hi == IF lo + 1 > n - 1 THEN n - 1 ELSE lo + 1
         IN  <<s[lo + 1] * QDen + (s[hi + 1] - s[lo + 1]) * g>>

\* a quantile that goes on over an empty axis, as np.nanquantile does
QuantileNeverRaises(arr) == FALSE

\* np.quantile over an empty permutation axis raises IndexError
QuantileRaises(arr) == Len(arr) = 0

Column(c) == [k \in 1..numrnd |-> datrnd[k][c]]

\* dat >= threshold and dat <= threshold; a comparison with NaN is false
Geq(x, t) == t # NaN /\ x * QDen >= t[1]

Leq(x, t) == t # NaN /\ x * QDen <= t[1]

PosMask(dat) == {c \in Cells : Geq(dat[c], cluster_threshold_pos[c])}

NegMask(dat) == {c \in Cells : Leq(dat[c], cluster_threshold_neg[c])}

----------------------------------------------------------------------------
\* scipy.ndimage.label with its default structure

Adjacent(i, j) == Abs(i - j) = 1

RECURSIVE Grow(_, _)
Grow(S, M) ==
    LET T == S \cup {j \in M : \E i \in S : Adjacent(i, j)}
    IN  IF T = S THEN S ELSE Grow(T, M)

\* the components of the mask M, in scan order of their first cell
RECURSIVE LabelFrom(_, _)
LabelFrom(M, rest) ==
    IF rest = {} THEN <<>>
    ELSE LET comp == Grow({MinOf(rest)}, M)
         IN  <<comp>> \o LabelFrom(M, rest \ comp)

label(M) == LabelFrom(M, M)

\* the pass with the one-cell clusters kept
ClusterEntryKeepsSingle(dat, idx) ==
    IF cluster_stat_sum
    THEN <<[stat |-> SumOver(dat, idx), inds |-> idx]>>
    ELSE <<>>

\* one pass of the loop "for l in range(1, num_clusters + 1)"
ClusterEntry(dat, idx) ==
    IF cluster_stat_sum
    THEN IF Cardinality(idx) > 1
         THEN <<[stat |-> SumOver(dat, idx), inds |-> idx]>>
         ELSE IF cluster_stat_size
              THEN <<[stat |-> Cardinality(idx), inds |-> idx]>>
              ELSE <<>>
    ELSE <<>>

RECURSIVE CollectStats(_, _)
CollectStats(dat, comps) ==
    IF comps = <<>> THEN <<>>
    ELSE ClusterEntry(dat, Head(comps)) \o CollectStats(dat, Tail(comps))

\* the sequence of (clus_stats[i], inds[i])
compute_cluster_stats(dat, clus_cand) == CollectStats(dat, label(clus_cand))

find_and_characterize_clusters(dat) ==
    LET pos0 == IF tail >= 0 THEN compute_cluster_stats(dat, PosMask(dat)) ELSE <<>>
        neg0 == IF tail <= 0 THEN compute_cluster_stats(dat, NegMask(dat)) ELSE <<>>
    IN  [pos |-> IF tail = -1 THEN <<>> ELSE pos0,
         neg |-> IF tail = 1 THEN <<>> ELSE neg0]

Stats(clus) == {clus[i].stat : i \in 1..Len(clus)}

----------------------------------------------------------------------------
\* the inputs

Levels == {<<1, 20>>, <<1, 2>>}
Alphas == {<<1, 4>>}
Tails == {-1, 0, 1, 2}
ClusterStats == {"sum", "size", "max"}

\* the permutation slices: flat, a rise on the first two cells, a dip on the last two
SliceZero == [c \in Cells |-> 0]
SliceUp == [c \in Cells |-> IF c <= 2 THEN 1 ELSE 0]
SliceDown == [c \in Cells |-> IF c >= NCells - 1 THEN -1 ELSE 0]

\* u rises, then d dips, then flat slices, n in all
Blocks(n, u, d) ==
    [k \in 1..n |-> IF k <= u THEN SliceUp ELSE IF k <= u + d THEN SliceDown ELSE SliceZero]

NullArrays == {Blocks(n, u, d) : n \in 0..MaxPerm, u \in 0..MaxPerm, d \in 0..MaxPerm}

\* a few observed arrays
ObsFew ==
    {SliceZero, SliceUp, SliceDown, [c \in Cells |-> 1], [c \in Cells |-> -1],
     [c \in Cells |-> IF c <= 2 THEN -1 ELSE 1]}

\* every observed array for a valid tail in "sum" mode, a few for the other
\* configurations
Init ==
    /\ tail \in Tails
    /\ clusterstat \in ClusterStats
    /\ datobs \in IF tail \in {-1, 0, 1} /\ clusterstat = "sum"
                  THEN [Cells -> Vals] ELSE ObsFew
    /\ datrnd \in NullArrays
    /\ alpha \in Alphas
    /\ clusteralpha \in Levels
    /\ pc = "start"
    /\ cluster_threshold_neg = <<>>
    /\ cluster_threshold_pos = <<>>
    /\ obs_pos = <<>>
    /\ obs_neg = <<>>
    /\ pending = {}
    /\ null_pos = <<>>
    /\ null_neg = <<>>
    /\ p = <<>>
    /\ h = <<>>

----------------------------------------------------------------------------
\* lines 143-157: the thresholds
Thresholds ==
    /\ pc = "start"
    /\ ~QuantileRaises(datrnd)
    /\ cluster_threshold_neg' = [c \in Cells |-> Quantile(Column(c), QNum)]
    /\ cluster_threshold_pos' = [c \in Cells |-> Quantile(Column(c), QDen - QNum)]
    /\ pc' = "observed"
    /\ UNCHANGED <<inputs, obs_pos, obs_neg, pending, null_pos, null_neg, p, h>>

\* lines 156-157: the IndexError out of np.quantile ends the call
ThresholdsRaise ==
    /\ pc = "start"
    /\ QuantileRaises(datrnd)
    /\ pc' = "IndexError"
    /\ UNCHANGED <<inputs, cluster_threshold_neg, cluster_threshold_pos,
                   obs_pos, obs_neg, pending, null_pos, null_neg, p, h>>

\* lines 200-205: the observed clusters, and the null arrays filled with NaN
Observed ==
    /\ pc = "observed"
    /\ obs_pos' = find_and_characterize_clusters(datobs).pos
    /\ obs_neg' = find_and_characterize_clusters(datobs).neg
    /\ null_pos' = [k \in 1..numrnd |-> NaN]
    /\ null_neg' = [k \in 1..numrnd |-> NaN]
    /\ pending' = 1..numrnd
    /\ pc' = "loop"
    /\ UNCHANGED <<inputs, cluster_threshold_neg, cluster_threshold_pos, p, h>>

\* the slot of a permutation without a cluster taken over from the slot before
NullSlotCarried(null, k, stats, pickMax) ==
    IF stats # {}
    THEN [null EXCEPT ![k] = <<IF pickMax THEN MaxOf(stats) ELSE MinOf(stats)>>]
    ELSE IF k > 1 THEN [null EXCEPT ![k] = null[k - 1]] ELSE null

\* lines 213-216: the slot of one permutation
NullSlot(null, k, stats, pickMax) ==
    IF stats # {}
    THEN [null EXCEPT ![k] = <<IF pickMax THEN MaxOf(stats) ELSE MinOf(stats)>>]
    ELSE null

\* lines 207-216: one pass of the permutation loop, k (from 1) the next index
PermBody(k) ==
    LET clus == find_and_characterize_clusters(datrnd[k])
    IN  /\ null_pos' = NullSlot(null_pos, k, Stats(clus.pos), TRUE)
        /\ null_neg' = NullSlot(null_neg, k, Stats(clus.neg), FALSE)
        /\ pending' = pending \ {k}
        /\ UNCHANGED <<inputs, pc, cluster_threshold_neg, cluster_threshold_pos,
                       obs_pos, obs_neg, p, h>>

PermStep ==
    /\ pc = "loop"
    /\ pending # {}
    /\ Round10(numrnd) # 0
    /\ PermBody(MinOf(pending))

\* line 208: k % round(numrnd / 10) with round(numrnd / 10) = 0
PermFault ==
    /\ pc = "loop"
    /\ pending # {}
    /\ Round10(numrnd) = 0
    /\ pc' = "ZeroDivisionError"
    /\ UNCHANGED <<inputs, cluster_threshold_neg, cluster_threshold_pos,
                   obs_pos, obs_neg, pending, null_pos, null_neg, p, h>>

----------------------------------------------------------------------------
\* lines 218-256

\* null[~np.isnan(null)], as the sequence of the numbers
Prune(null) ==
    LET kept == SelectSeq(null, LAMBDA e : e # NaN)
    IN  [i \in 1..Len(kept) |-> kept[i][1]]

SortedNullPos(null) == Reverse(Sort(Prune(null)))

SortedNullNeg(null) == Sort(Prune(null))

\* the count with the ties counted in
CountGreaterOrEqual(null, v) == Cardinality({i \in 1..Len(null) : null[i] >= v})

CountGreater(null, v) == Cardinality({i \in 1..Len(null) : null[i] > v})

CountLess(null, v) == Cardinality({i \in 1..Len(null) : null[i] < v})

\* the p-value without the added one
ClusPNoPlusOne(count) == <<count, numrnd + 1>>

\* lines 228 and 232: (count + 1) / (numrnd + 1)
ClusP(count) == <<count + 1, numrnd + 1>>

RatLess(a, b) == a[1] * b[2] < b[1] * a[2]

RatEq(a, b) == a[1] * b[2] = b[1] * a[2]

One == <<1, 1>>

\* lines 240-242: p[pos_inds[k]] = clus_p_pos[k], k in order
RECURSIVE AssignPos(_, _, _)
AssignPos(pv, clus, npos) ==
    IF clus = <<>> THEN pv
    ELSE LET cp == ClusP(CountGreater(npos, Head(clus).stat))
         IN  AssignPos([c \in Cells |-> IF c \in Head(clus).inds THEN cp ELSE pv[c]],
                       Tail(clus), npos)

\* lines 244-247: overwrite the cluster when its p is below that of its first cell
RECURSIVE AssignNeg(_, _, _)
AssignNeg(pv, clus, nneg) ==
    IF clus = <<>> THEN pv
    ELSE LET cp == ClusP(CountLess(nneg, Head(clus).stat))
             first == MinOf(Head(clus).inds)
         IN  AssignNeg(IF RatLess(cp, pv[first])
                       THEN [c \in Cells |-> IF c \in Head(clus).inds THEN cp ELSE pv[c]]
                       ELSE pv,
                       Tail(clus), nneg)

\* line 251: np.minimum(1, p * 2)
Doubled(q) == IF 2 * q[1] >= q[2] THEN One ELSE <<2 * q[1], q[2]>>

PValues(npos, nneg) ==
    LET p0 == [c \in Cells |-> One]
        p1 == IF tail >= 0 THEN AssignPos(p0, obs_pos, npos) ELSE p0
        p2 == IF tail <= 0 THEN AssignNeg(p1, obs_neg, nneg) ELSE p1
    IN  IF tail = 0 THEN [c \in Cells |-> Doubled(p2[c])] ELSE p2

Finish ==
    /\ pc = "loop"
    /\ pending = {}
    /\ null_pos' = SortedNullPos(null_pos)
    /\ null_neg' = SortedNullNeg(null_neg)
    /\ p' = PValues(SortedNullPos(null_pos), SortedNullNeg(null_neg))
    /\ h' = [c \in Cells |->
               RatLess(PValues(SortedNullPos(null_pos), SortedNullNeg(null_neg))[c], alpha)]
    /\ pc' = "done"
    /\ UNCHANGED <<inputs, cluster_threshold_neg, cluster_threshold_pos,
                   obs_pos, obs_neg, pending>>

Next ==
    \/ Thresholds
    \/ ThresholdsRaise
    \/ Observed
    \/ PermStep
    \/ PermFault
    \/ Finish

Spec == Init /\ [][Next]_vars

----------------------------------------------------------------------------
\* the permutation loop with its passes taken in any order

InitPar ==
    /\ datobs \in ObsFew
    /\ datrnd \in NullArrays
    /\ tail \in {-1, 0, 1}
    /\ alpha \in Alphas
    /\ clusteralpha \in Levels
    /\ clusterstat = "sum"
    /\ pc = "start"
    /\ cluster_threshold_neg = <<>>
    /\ cluster_threshold_pos = <<>>
    /\ obs_pos = <<>>
    /\ obs_neg = <<>>
    /\ pending = {}
    /\ null_pos = <<>>
    /\ null_neg = <<>>
    /\ p = <<>>
    /\ h = <<>>

PermStepAny ==
    /\ pc = "loop"
    /\ Round10(numrnd) # 0
    /\ \E k \in pending : PermBody(k)

NextPar ==
    \/ Thresholds
    \/ ThresholdsRaise
    \/ Observed
    \/ PermStepAny
    \/ PermFault
    \/ Finish

SpecPar == InitPar /\ [][NextPar]_vars

----------------------------------------------------------------------------
\* clusters, stated without the labelling

ConnectedSet(S) ==
    /\ S # {}
    /\ \A T \in SUBSET S :
          (T # {} /\ T # S) => \E i \in T, j \in S \ T : Adjacent(i, j)

IsCluster(S, M) ==
    /\ S \subseteq M
    /\ ConnectedSet(S)
    /\ \A i \in S, j \in M \ S : ~Adjacent(i, j)

Clusters(M) == {S \in SUBSET M : IsCluster(S, M)}

BigClusters(M) == {S \in Clusters(M) : Cardinality(S) > 1}

Pairs(clus) == {<<clus[i].stat, clus[i].inds>> : i \in 1..Len(clus)}

HasThresholds == pc \in {"observed", "loop", "done", "ZeroDivisionError"}

HasObserved == pc \in {"loop", "done", "ZeroDivisionError"}

ValidConfig == tail \in {-1, 0, 1} /\ clusterstat \in {"sum", "size"}

\* the extreme cluster statistic of permutation k, when it has a cluster
HasPos(k) == find_and_characterize_clusters(datrnd[k]).pos # <<>>

HasNeg(k) == find_and_characterize_clusters(datrnd[k]).neg # <<>>

PermMax(k) == MaxOf(Stats(find_and_characterize_clusters(datrnd[k]).pos))

PermMin(k) == MinOf(Stats(find_and_characterize_clusters(datrnd[k]).neg))

PermsAbove(v) == {k \in 1..numrnd : HasPos(k) /\ PermMax(k) > v}

PermsBelow(v) == {k \in 1..numrnd : HasNeg(k) /\ PermMin(k) < v}

----------------------------------------------------------------------------
\* the p-value a cell gets from one sign alone

RatMin(a, b) == IF RatLess(b, a) THEN b ELSE a

OneTailPos(c) ==
    IF \E i \in 1..Len(obs_pos) : c \in obs_pos[i].inds
    THEN LET i == CHOOSE j \in 1..Len(obs_pos) : c \in obs_pos[j].inds
         IN  <<Cardinality(PermsAbove(obs_pos[i].stat)) + 1, numrnd + 1>>
    ELSE One

OneTailNeg(c) ==
    IF \E i \in 1..Len(obs_neg) : c \in obs_neg[i].inds
    THEN LET i == CHOOSE j \in 1..Len(obs_neg) : c \in obs_neg[j].inds
         IN  <<Cardinality(PermsBelow(obs_neg[i].stat)) + 1, numrnd + 1>>
    ELSE One

----------------------------------------------------------------------------
\* C1: in a one-tailed run that returns, every cell of an observed positive
\* cluster with statistic v has p = (number of permutations whose maximum
\* cluster statistic exceeds v, plus 1) / (P + 1), and every cell of an
\* observed negative cluster has p = (number of permutations whose minimum
\* cluster statistic is below v, plus 1) / (P + 1); permutations without a
\* cluster count for nothing and leave the denominator at P + 1.
C1_OneTailedP ==
    (pc = "done" /\ tail \in {-1, 1}) =>
        /\ tail = 1 =>
              \A i \in 1..Len(obs_pos) : \A c \in obs_pos[i].inds :
                  RatEq(p[c], <<Cardinality(PermsAbove(obs_pos[i].stat)) + 1, numrnd + 1>>)
        /\ tail = -1 =>
              \A i \in 1..Len(obs_neg) : \A c \in obs_neg[i].inds :
                  RatEq(p[c], <<Cardinality(PermsBelow(obs_neg[i].stat)) + 1, numrnd + 1>>)

\* a positive cluster ranked inside a null distribution that some permutations
\* did not enter
C1_Witness ==
    /\ pc = "done"
    /\ tail = 1
    /\ Len(null_pos) < numrnd
    /\ \E i \in 1..Len(obs_pos) :
          /\ PermsAbove(obs_pos[i].stat) # {}
          /\ Cardinality(PermsAbove(obs_pos[i].stat)) < Len(null_pos)
          /\ \A c \in obs_pos[i].inds :
                p[c] = <<Cardinality(PermsAbove(obs_pos[i].stat)) + 1, numrnd + 1>>

\* C2: for a valid configuration every returned p-value is at least
\* 1 / (P + 1), hence never 0, and at most 1, also after the two-tailed
\* doubling and clipping.
C2_PRange ==
    (pc = "done" /\ ValidConfig) =>
        \A c \in Cells :
            /\ p[c][1] >= 1
            /\ p[c][2] >= 1
            /\ p[c][1] <= p[c][2]
            /\ p[c][1] * (numrnd + 1) >= p[c][2]

\* a two-tailed result in which the p-value of a positive cluster, below 1
\* before the doubling, is clipped to 1
C2_Witness ==
    /\ pc = "done"
    /\ tail = 0
    /\ clusterstat = "sum"
    /\ \E c \in Cells :
          /\ \E i \in 1..Len(obs_pos) : c \in obs_pos[i].inds
          /\ \A j \in 1..Len(obs_neg) : c \notin obs_neg[j].inds
          /\ RatLess(OneTailPos(c), One)
          /\ p[c] = One

\* C3: in "sum" mode compute_cluster_stats returns exactly one pair
\* (sum of the values, members) for every cluster of the mask with more than
\* one cell and nothing for a one-cell cluster, for the observed array and for
\* every permutation slice; so the observed lists and the null slots hold
\* statistics of clusters of more than one cell only.
C3_SumClusters ==
    (clusterstat = "sum" /\ HasThresholds) =>
        /\ pc = "observed" =>
              \A dat \in {datobs} \cup Range(datrnd) :
                  \A M \in {PosMask(dat), NegMask(dat)} :
                      LET r == compute_cluster_stats(dat, M)
                      IN  /\ Len(r) = Cardinality(BigClusters(M))
                          /\ Pairs(r) = {<<SumOver(dat, S), S>> : S \in BigClusters(M)}
        /\ HasObserved =>
              /\ \A i \in 1..Len(obs_pos) :
                    obs_pos[i].inds \in BigClusters(PosMask(datobs))
              /\ \A i \in 1..Len(obs_neg) :
                    obs_neg[i].inds \in BigClusters(NegMask(datobs))
        /\ pc = "loop" =>
              \A k \in (1..numrnd) \ pending :
                  /\ null_pos[k] # NaN =>
                        \E S \in BigClusters(PosMask(datrnd[k])) :
                            null_pos[k] = <<SumOver(datrnd[k], S)>>
                  /\ null_neg[k] # NaN =>
                        \E S \in BigClusters(NegMask(datrnd[k])) :
                            null_neg[k] = <<SumOver(datrnd[k], S)>>

\* an observed mask with a cluster that is kept and a one-cell cluster that is
\* dropped, and a processed permutation whose only cluster is one cell
C3_Witness ==
    /\ clusterstat = "sum"
    /\ pc = "loop"
    /\ \E S \in Clusters(PosMask(datobs)) \cup Clusters(NegMask(datobs)) :
          Cardinality(S) = 1
    /\ Len(obs_pos) + Len(obs_neg) > 0
    /\ \E k \in (1..numrnd) \ pending :
          /\ Clusters(PosMask(datrnd[k])) # {}
          /\ null_pos[k] = NaN
          /\ tail >= 0

\* C4: in "size" mode compute_cluster_stats keeps every cluster of more than
\* one cell, with its member count as statistic, and drops the one-cell ones.
C4_SizeClusters ==
    (clusterstat = "size" /\ HasThresholds) =>
        \A dat \in {datobs} \cup Range(datrnd) :
            \A M \in {PosMask(dat), NegMask(dat)} :
                Pairs(compute_cluster_stats(dat, M))
                    = {<<Cardinality(S), S>> : S \in BigClusters(M)}

\* C5: a two-tailed p-value is min(1, 2 q), q the smaller of the p-values the
\* cell gets from the positive and from the negative clusters alone under the
\* same thresholds.
C5_TwoTailed ==
    (pc = "done" /\ tail = 0) =>
        \A c \in Cells :
            RatEq(p[c], Doubled(RatMin(OneTailPos(c), OneTailNeg(c))))

\* C6: in a two-tailed run the positive and the negative mask share no cell,
\* for the observed array and for every permutation slice, so no cell is in
\* both an observed positive and an observed negative cluster.
C6_DisjointMasks ==
    (tail = 0 /\ HasThresholds) =>
        /\ \A dat \in {datobs} \cup Range(datrnd) : PosMask(dat) \cap NegMask(dat) = {}
        /\ \A i \in 1..Len(obs_pos), j \in 1..Len(obs_neg) :
              obs_pos[i].inds \cap obs_neg[j].inds = {}

\* C7: with tail outside {-1, 0, 1} or clusterstat outside {sum, size} the call
\* ends in an error: it computes no threshold, cluster or p-value and returns
\* nothing.
C7_InvalidConfigRejected ==
    ~ValidConfig =>
        /\ pc \notin {"observed", "loop", "done"}
        /\ cluster_threshold_neg = <<>>
        /\ cluster_threshold_pos = <<>>
        /\ p = <<>>

C9_NoZeroModulus == numrnd >= 1 => pc # "ZeroDivisionError"

----------------------------------------------------------------------------
\* the null arrays of the passes taken in the order 1, 2, ..., P

RECURSIVE SeqNull(_, _, _)
SeqNull(null, k, pickMax) ==
    IF k > numrnd THEN null
    ELSE LET clus == find_and_characterize_clusters(datrnd[k])
         IN  SeqNull(NullSlot(null, k, Stats(IF pickMax THEN clus.pos ELSE clus.neg), pickMax),
                     k + 1, pickMax)

SeqNullPos == SeqNull([k \in 1..numrnd |-> NaN], 1, TRUE)

SeqNullNeg == SeqNull([k \in 1..numrnd |-> NaN], 1, FALSE)

\* C10: whatever the order of the passes of the permutation loop, every slot
\* written so far, the sorted null sequences, the p-values and the mask are
\* those of the order 1, 2, ..., P.
C10_OrderIndependent ==
    LET seqPos == SeqNullPos
        seqNeg == SeqNullNeg
        seqP == PValues(SortedNullPos(seqPos), SortedNullNeg(seqNeg))
    IN  /\ pc = "loop" =>
              \A k \in (1..numrnd) \ pending :
                  null_pos[k] = seqPos[k] /\ null_neg[k] = seqNeg[k]
        /\ pc = "done" =>
              /\ null_pos = SortedNullPos(seqPos)
              /\ null_neg = SortedNullNeg(seqNeg)
              /\ p = seqP
              /\ h = [c \in Cells |-> RatLess(seqP[c], alpha)]

\* a pass taken before an earlier one: slot j is written while a slot k < j,
\* which will get an entry too, is still pending
C10_Witness ==
    /\ pc = "loop"
    /\ \E j \in (1..numrnd) \ pending, k \in pending :
          /\ k < j
          /\ null_pos[j] # NaN
          /\ SeqNullPos[k] # NaN
          /\ SeqNullPos[k] # null_pos[j]

====
